---------------------------- MODULE Spec2Model ----------------------------
(***************************************************************************)
(* Model of custom_components/circadian_hue/switch.py: the CircadianHue    *)
(* switch entity, its poll cycle (async_update_info), the per-bridge       *)
(* update (update_bridge) and the light-state computation (get_lightstate).*)
(*                                                                         *)
(* Every await of the source is a suspension point and therefore a step    *)
(* boundary of the model; the code between two awaits is one atomic step.  *)
(* turn_on / turn_off are synchronous and interleave with every step.      *)
(***************************************************************************)
EXTENDS Integers, FiniteSets, Sequences, TLC

VARIABLES
    state,          \* self._state: "UNSET" (None), "ON" (True), "OFF" (False)
    lock,           \* self.lock is held
    phase,          \* position of async_setup_platform: "setup" | "running"
    calls,          \* calls of async_update_info scheduled and not yet started
    inv,            \* the invocations of async_update_info that run
    task,           \* the update_bridge task of each invocation and bridge
    scenes,         \* bridge.api.scenes of each bridge (the scene cache)
    added,          \* position of async_added_to_hass and whether a call ended
    persisted,      \* what async_get_last_state returns: "none" | "on" | "off"
    publishes,      \* state publishes requested and not yet done by the host
    escaped,        \* an exception left async_update_info towards the host
    lost,           \* a call returned at line 99 during the cycle in progress
    inputs          \* what the bridge and the colour sensor answer: drawn anew
                    \* at every step (fixed = FALSE) or fixed for the run

vars == <<state, lock, phase, calls, inv, task, scenes, added, persisted, publishes, escaped, lost,
          inputs>>

---------------------------------------------------------------------------
(* Bounds of the model *)

\* calls of async_update_info that are scheduled or running at one time
MaxInvocations == 2
\* state publishes that may be queued at the host at one time
MaxPublishes == 1

(* Program constants *)

\* 'transitiontime': 20
TransitionTime == 20
\* brightness = 255
FullBrightness == 255
\* abs(current_state['bri'] - state['bri']) > 5
BriTolerance == 5
\* the xy tolerance 0.02, in thousandths
XyTolerance == 20

Invocations == 1..MaxInvocations

\* hass.data[hue.DOMAIN]: the bridges the host may know
Bridges == {"b1", "b2"}

\* the lights of a bridge; light "l1" reports xy, light "l2" does not
Lights == {"l1", "l2"}

HasXY(light) == light = "l1"

\* the name update_bridge looks for
CircadianName == "Circadian"

\* Scene listings a bridge may report on a refresh (scene id -> name, lights);
\* scene ids are iterated in ascending order.
SceneIds == {1, 2, 3}

ListingA ==
    [s \in {1, 2, 3} |->
        CASE s = 1 -> [name |-> "Circadian", lights |-> {"l1", "l2"}]
          [] s = 2 -> [name |-> "Evening",   lights |-> {"l1", "l2"}]
          [] s = 3 -> [name |-> "Circadian", lights |-> {"l2"}]]

ListingB ==
    [s \in {2} |-> [name |-> "Circadian", lights |-> {"l1"}]]

ListingC ==
    [s \in {1} |-> [name |-> "Evening", lights |-> {"l1", "l2"}]]

Listings(b) == IF b = "b1" THEN {ListingA, ListingC} ELSE {ListingB}

\* the light groups of a bridge that are targets of the circadian scene
Groups == {[lights |-> {"l1", "l2"}]}

\* lines 37-38
is_circadian_scene(group, scene) ==
    group.lights = scene.lights /\ scene.name = CircadianName

\* sensor.circadian_values: the percentage and the xy colour (thousandths)
Readings ==
    { [percent |-> -50, xy_color |-> <<450, 410>>],
      [percent |->  50, xy_color |-> <<320, 330>>] }

---------------------------------------------------------------------------
(* get_lightstate *)

\* a brightness rounded to the nearest integer instead of cut by int()
BrightnessRounded(percent) ==
    IF percent > 0 THEN FullBrightness
                   ELSE (FullBrightness * (100 + percent) + 50) \div 100

\* lines 116-119, with int() of line 127
Brightness(percent) ==
    IF percent > 0 THEN FullBrightness
                   ELSE (FullBrightness * (100 + percent)) \div 100

\* keys that include xy for every light
PatchKeysAlwaysXY(light, set_brightness) ==
    {"on", "transitiontime", "xy"} \cup (IF set_brightness THEN {"bri"} ELSE {})

\* the keys whose value is not None (lines 124-130)
PatchKeys(light, set_brightness) ==
    {"on", "transitiontime"}
        \cup (IF HasXY(light) THEN {"xy"} ELSE {})
        \cup (IF set_brightness THEN {"bri"} ELSE {})

LightPatch(light, reading, set_brightness) ==
    [k \in PatchKeys(light, set_brightness) |->
        CASE k = "on"             -> TRUE
          [] k = "xy"             -> reading.xy_color
          [] k = "bri"            -> Brightness(reading.percent)
          [] k = "transitiontime" -> TransitionTime]

get_lightstate(lights, reading, set_brightness) ==
    [l \in lights |-> LightPatch(l, reading, set_brightness)]

---------------------------------------------------------------------------
(* The light states update_bridge compares (lines 162-171) *)

\* a light state {on, bri, xy}
LightStateXY(on, bri, xy) ==
    [k \in {"on", "bri", "xy"} |->
        CASE k = "on" -> on [] k = "bri" -> bri [] k = "xy" -> xy]

\* a light state {on, bri} of a light or a stored state without xy
LightStateNoXY(on, bri) ==
    [k \in {"on", "bri"} |-> CASE k = "on" -> on [] k = "bri" -> bri]

LiveBri == {150, 197, 200}
LiveXYs == {<<450, 410>>, <<455, 445>>, <<320, 330>>}
StoredBri == {200}
StoredXYs == {<<450, 410>>}

\* bridge.api.lights[l].state after a refresh
LiveStates(l) ==
    IF HasXY(l)
    THEN {LightStateXY(on, bri, xy) : on \in BOOLEAN, bri \in LiveBri, xy \in LiveXYs}
    ELSE {LightStateNoXY(on, bri) : on \in BOOLEAN, bri \in LiveBri}

\* one entry of the 'lightstates' of a scene detail response
StoredStates(l) ==
    {LightStateNoXY(on, bri) : on \in BOOLEAN, bri \in StoredBri}
        \cup (IF HasXY(l)
              THEN {LightStateXY(on, bri, xy) : on \in BOOLEAN, bri \in StoredBri, xy \in StoredXYs}
              ELSE {})

\* bridge.api.lights: the states of all lights of the bridge
LiveCaches ==
    {[l \in Lights |-> IF l = "l1" THEN a ELSE b] :
        a \in LiveStates("l1"), b \in LiveStates("l2")}

\* the 'lightstates' of a scene detail response for a scene over all lights
SceneDetails ==
    {[l \in Lights |-> IF l = "l1" THEN a ELSE b] :
        a \in StoredStates("l1"), b \in StoredStates("l2")}

\* the 'lightstates' of a scene over the lights ls
Restrict(detail, ls) == [l \in ls |-> detail[l]]

Abs(x) == IF x < 0 THEN -x ELSE x

\* line 164
OnDiffers(current_state, stored) == current_state["on"] # stored["on"]

\* line 166
BriDiffers(current_state, stored) ==
    Abs(current_state["bri"] - stored["bri"]) > BriTolerance

\* a comparison of each live coordinate with the stored coordinate of its axis
XyDiffersPerAxis(current_state, stored) ==
    /\ "xy" \in DOMAIN current_state
    /\ \/ Abs(current_state["xy"][1] - stored["xy"][1]) > XyTolerance
       \/ Abs(current_state["xy"][2] - stored["xy"][2]) > XyTolerance

\* line 170: both live coordinates against the stored x coordinate
XyDiffers(current_state, stored) ==
    /\ "xy" \in DOMAIN current_state
    /\ \/ Abs(current_state["xy"][1] - stored["xy"][1]) > XyTolerance
       \/ Abs(current_state["xy"][2] - stored["xy"][1]) > XyTolerance

\* lines 169-170 read state['xy'] of a stored state that has none: KeyError
XyMissing(current_state, stored) ==
    "xy" \in DOMAIN current_state /\ "xy" \notin DOMAIN stored

\* lines 160-171: the flags after the loop over the scene's lightstates
SceneCheck(live, lightstates) ==
    IF \E l \in DOMAIN lightstates : XyMissing(live[l], lightstates[l])
    THEN [error |-> TRUE, is_current_scene |-> FALSE, brightness_changed |-> FALSE]
    ELSE [error |-> FALSE,
          is_current_scene |->
              \A l \in DOMAIN lightstates :
                  /\ ~OnDiffers(live[l], lightstates[l])
                  /\ ~XyDiffers(live[l], lightstates[l]),
          brightness_changed |->
              \E l \in DOMAIN lightstates : BriDiffers(live[l], lightstates[l])]

\* what the loop can find for a scene over the lights ls, for every live cache and
\* every scene detail response
CheckOutcomeSet ==
    {<<ls, SceneCheck(live, Restrict(detail, ls))>> :
        ls \in SUBSET Lights, live \in LiveCaches, detail \in SceneDetails}

CheckOutcomes(ls) == {p[2] : p \in {q \in CheckOutcomeSet : q[1] = ls}}

---------------------------------------------------------------------------
(* State *)

\* no update_bridge task for this invocation and bridge
NoTask ==
    [pc |-> "none", scene |-> 0, scenes_result |-> "unset", available |-> "unset",
     is_current_scene |-> FALSE, brightness_changed |-> FALSE,
     request |-> <<>>, puts |-> [s \in SceneIds |-> 0], exit |-> "none",
     state_at_start |-> "none"]

\* the task asyncio.wait has created and not yet run; state_at_start is the
\* entity's state when the cycle created the task, kept until the task runs
ReadyTask == [NoTask EXCEPT !.pc = "ready"]

IdleInvocation == [pc |-> "idle", now |-> FALSE]

\* the bridge answers and the sensor readings are not fixed
AnyInputs == [fixed |-> FALSE]

\* lines 159-171: what the comparison loop can find for a scene over the lights ls
ChecksNow(ls) ==
    IF inputs.fixed
    THEN {SceneCheck(inputs.live, Restrict(inputs.detail, ls))}
    ELSE CheckOutcomes(ls)

\* lines 114-115: what sensor.circadian_values can hold
ReadingsNow == IF inputs.fixed THEN {inputs.reading} ELSE Readings

\* an entity that is constructed with the state ON
InitOn ==
    /\ state = "ON"
    /\ lock = FALSE
    /\ phase = "setup"
    /\ calls = 1
    /\ inv = [i \in Invocations |-> IdleInvocation]
    /\ task = [i \in Invocations |-> [b \in Bridges |-> NoTask]]
    /\ scenes = [b \in Bridges |-> IF b = "b1" THEN ListingA ELSE ListingB]
    /\ added = [pc |-> "idle", done |-> FALSE]
    /\ persisted = "none"
    /\ publishes = 0
    /\ escaped = FALSE
    /\ lost = FALSE
    /\ inputs = AnyInputs

\* __init__ (lines 63-69) and async_setup_platform up to its call at line 57
Init ==
    /\ state = "UNSET"
    /\ lock = FALSE
    /\ phase = "setup"
    /\ calls = 1
    /\ inv = [i \in Invocations |-> IdleInvocation]
    /\ task = [i \in Invocations |-> [b \in Bridges |-> NoTask]]
    /\ scenes \in {f \in [Bridges -> UNION {Listings(b) : b \in Bridges}] :
                      \A b \in Bridges : f[b] \in Listings(b)}
    /\ added = [pc |-> "idle", done |-> FALSE]
    /\ persisted \in {"none", "on", "off"}
    /\ publishes = 0
    /\ escaped = FALSE
    /\ lost = FALSE
    /\ inputs = AnyInputs

---------------------------------------------------------------------------
(* The switch entity: turn_on, turn_off, async_added_to_hass *)

\* lines 86-88
turn_on ==
    /\ phase = "running"
    /\ state' = "ON"
    /\ UNCHANGED <<lock, phase, calls, inv, task, scenes, added, persisted, publishes, escaped, lost, inputs>>

\* turn_off without line 93
turn_off_no_publish ==
    /\ phase = "running"
    /\ state' = "OFF"
    /\ UNCHANGED <<lock, phase, calls, inv, task, scenes, added, persisted, publishes, escaped, lost, inputs>>

\* lines 90-93
turn_off ==
    /\ phase = "running"
    /\ publishes < MaxPublishes
    /\ state' = "OFF"
    /\ publishes' = publishes + 1
    /\ UNCHANGED <<lock, phase, calls, inv, task, scenes, added, persisted, escaped, lost, inputs>>

\* the host runs the publish job schedule_update_ha_state queued (line 93)
PublishState ==
    /\ publishes > 0
    /\ publishes' = publishes - 1
    /\ UNCHANGED <<state, lock, phase, calls, inv, task, scenes, added, persisted, escaped, lost, inputs>>

\* the host calls async_added_to_hass, which awaits super() (line 137)
AddedCall ==
    /\ phase = "running"
    /\ added.pc = "idle"
    /\ added' = [added EXCEPT !.pc = "super"]
    /\ UNCHANGED <<state, lock, phase, calls, inv, task, scenes, persisted, publishes, escaped, lost, inputs>>

\* lines 138-141: return when a state is set, else await async_get_last_state
AddedCheck ==
    /\ added.pc = "super"
    /\ \/ /\ state # "UNSET"
          /\ added' = [pc |-> "idle", done |-> TRUE]
       \/ /\ state = "UNSET"
          /\ added' = [added EXCEPT !.pc = "last_state"]
    /\ UNCHANGED <<state, lock, phase, calls, inv, task, scenes, persisted, publishes, escaped, lost, inputs>>

\* line 142: state and state.state == STATE_ON (None when there is no last state)
RestoredState(last) ==
    IF last = "none" THEN "UNSET" ELSE IF last = "on" THEN "ON" ELSE "OFF"

\* lines 141-142: async_get_last_state returns
AddedRestore ==
    /\ added.pc = "last_state"
    /\ state' = RestoredState(persisted)
    /\ added' = [pc |-> "idle", done |-> TRUE]
    /\ UNCHANGED <<lock, phase, calls, inv, task, scenes, persisted, publishes, escaped, lost, inputs>>

---------------------------------------------------------------------------
(* The poll cycle: async_update_info *)

\* the poll cycle of invocation i is in progress (between acquire and release)
InCycle(i) == inv[i].pc \in {"sleep", "wait"}

\* async_track_time_interval (line 59) fires and the host schedules a call
Tick ==
    /\ phase = "running"
    /\ calls + Cardinality({i \in Invocations : InCycle(i)}) < MaxInvocations
    /\ calls' = calls + 1
    /\ UNCHANGED <<state, lock, phase, inv, task, scenes, added, persisted, publishes, escaped, lost, inputs>>

\* lines 27-35: the initialised bridges the host knows at this moment
get_bridges == SUBSET Bridges

\* an argument now that is set in every call
NowAlways == TRUE

\* the argument now: None in the call of line 57, a time in the scheduled calls
Now == phase = "running"

\* async_setup_platform goes on to lines 58-59 when its first call has returned
PhaseAfter(i) == IF inv[i].now THEN phase ELSE "running"

\* an acquire that does not look at the lock
TryAcquireAlways == TRUE

\* line 97: self.lock.acquire(False) succeeds when the lock is free
TryAcquire == ~lock

\* a return through the finally clause: the lock of the running cycle is released
DroppedReleasing ==
    /\ ~TryAcquire
    /\ lock' = FALSE
    /\ calls' = calls - 1
    /\ lost' = TRUE
    /\ UNCHANGED <<state, phase, inv, task, scenes, added, persisted, publishes, escaped, inputs>>

\* lines 97-99: the lock is held, the call returns
Dropped ==
    /\ ~TryAcquire
    /\ calls' = calls - 1
    /\ lost' = TRUE
    /\ UNCHANGED <<state, lock, phase, inv, task, scenes, added, persisted, publishes, escaped, inputs>>

\* lines 97-109: the lock is taken; no bridges, or one task per bridge
Acquired(i) ==
    /\ TryAcquire
    /\ inv[i].pc = "idle"
    /\ \A j \in Invocations : j < i => inv[j].pc # "idle"
    /\ calls' = calls - 1
    /\ \E bridges \in get_bridges :
          \/ /\ bridges = {}
             /\ Now
             /\ lock' = TRUE
             /\ inv' = [inv EXCEPT ![i] = [pc |-> "sleep", now |-> Now]]
             /\ UNCHANGED <<task, phase>>
          \/ /\ bridges = {}
             /\ ~Now
             /\ lock' = FALSE
             /\ phase' = "running"
             /\ UNCHANGED <<inv, task>>
          \/ /\ bridges # {}
             /\ lock' = TRUE
             /\ inv' = [inv EXCEPT ![i] = [pc |-> "wait", now |-> Now]]
             /\ task' = [task EXCEPT ![i] =
                            [b \in Bridges |->
                                IF b \in bridges
                                THEN [ReadyTask EXCEPT !.state_at_start = state]
                                ELSE NoTask]]
             /\ UNCHANGED phase
    /\ UNCHANGED <<state, scenes, added, persisted, publishes, escaped, lost, inputs>>

\* a scheduled or the initial call of async_update_info starts to run
async_update_info ==
    /\ calls > 0
    /\ (Dropped \/ \E i \in Invocations : Acquired(i))

Finished(t) == t.pc \in {"none", "done", "raised"}

\* a pause that ends without the release of line 111
SleepReturnKeepsLock(i) ==
    /\ inv[i].pc = "sleep"
    /\ lock' = lock
    /\ inv' = [inv EXCEPT ![i] = IdleInvocation]
    /\ lost' = FALSE
    /\ UNCHANGED <<state, phase, calls, task, scenes, added, persisted, publishes, escaped, inputs>>

\* lines 105-106 and 111: the pause ends, the lock is released
SleepReturn(i) ==
    /\ inv[i].pc = "sleep"
    /\ lock' = FALSE
    /\ inv' = [inv EXCEPT ![i] = IdleInvocation]
    /\ lost' = FALSE
    /\ UNCHANGED <<state, phase, calls, task, scenes, added, persisted, publishes, escaped, inputs>>

\* a wait that ends with the first exception of a task and raises it
WaitReturnFirstException(i) ==
    /\ inv[i].pc = "wait"
    /\ \/ \A b \in Bridges : Finished(task[i][b])
       \/ \E b \in Bridges : task[i][b].pc = "raised"
    /\ lock' = FALSE
    /\ inv' = [inv EXCEPT ![i] = IdleInvocation]
    /\ task' = [task EXCEPT ![i] =
                   [b \in Bridges |-> IF Finished(task[i][b]) THEN NoTask ELSE task[i][b]]]
    /\ escaped' = (escaped \/ \E b \in Bridges : task[i][b].pc = "raised")
    /\ phase' = PhaseAfter(i)
    /\ lost' = FALSE
    /\ UNCHANGED <<state, calls, scenes, added, persisted, publishes, inputs>>

\* lines 107-111: asyncio.wait returns when every task has ended, whether it
\* returned or raised; the tasks' exceptions stay in the tasks
WaitReturn(i) ==
    /\ inv[i].pc = "wait"
    /\ \A b \in Bridges : Finished(task[i][b])
    /\ lock' = FALSE
    /\ inv' = [inv EXCEPT ![i] = IdleInvocation]
    /\ task' = [task EXCEPT ![i] = [b \in Bridges |-> NoTask]]
    /\ phase' = PhaseAfter(i)
    /\ lost' = FALSE
    /\ UNCHANGED <<state, calls, scenes, added, persisted, publishes, escaped, inputs>>

---------------------------------------------------------------------------
(* The per-bridge update: update_bridge *)

\* lines 153-156: the next scene after scene id `after` whose name is
\* "Circadian", 0 when the loop is over
NextCircadian(listing, after) ==
    LET rest == {s \in DOMAIN listing : s > after /\ listing[s].name = CircadianName}
    IN  IF rest = {} THEN 0 ELSE CHOOSE s \in rest : \A r \in rest : s <= r

\* the task returns (lines 147, 151 and the end of the loop)
Return(t, exit) ==
    [t EXCEPT !.pc = "done", !.exit = exit, !.scene = 0, !.request = <<>>,
              !.scenes_result = "unset", !.state_at_start = "none",
              !.is_current_scene = FALSE, !.brightness_changed = FALSE]

\* an exception leaves update_bridge and ends its task
Raise(t) ==
    [t EXCEPT !.pc = "raised", !.exit = "error", !.scene = 0, !.request = <<>>,
              !.scenes_result = "unset",
              !.is_current_scene = FALSE, !.brightness_changed = FALSE]

\* lines 153-159: go on with the loop after scene `after`: the detail GET of the
\* next Circadian scene is sent, or the loop and the task end
NextScene(b, t, after) ==
    LET n == NextCircadian(scenes[b], after)
    IN  IF n = 0
        THEN Return(t, "end")
        ELSE [t EXCEPT !.pc = "get", !.scene = n, !.request = <<>>,
                       !.scenes_result = "unset",
                       !.is_current_scene = FALSE, !.brightness_changed = FALSE]

\* a gate that lets an unset state pass
NotOff == state # "OFF"

\* line 145: self._state is True
IsOn == state = "ON"

\* an update that sends the light refresh without a scene refresh before it
UpdateBridgeStartLightsFirst(i, b) ==
    /\ task[i][b].pc = "ready"
    /\ \/ /\ ~IsOn
          /\ task' = [task EXCEPT ![i][b] = Return(@, "off")]
       \/ /\ IsOn
          /\ task' = [task EXCEPT ![i][b].pc = "lights_update",
                                  ![i][b].state_at_start = "none"]
    /\ UNCHANGED <<state, lock, phase, calls, inv, scenes, added, persisted, publishes, escaped, lost, inputs>>

\* lines 145-148: the gate on the state, then the scene refresh is sent
UpdateBridgeStart(i, b) ==
    /\ task[i][b].pc = "ready"
    /\ \/ /\ ~IsOn
          /\ task' = [task EXCEPT ![i][b] = Return(@, "off")]
       \/ /\ IsOn
          /\ task' = [task EXCEPT ![i][b].pc = "scenes_update",
                                  ![i][b].state_at_start = "none"]
    /\ UNCHANGED <<state, lock, phase, calls, inv, scenes, added, persisted, publishes, escaped, lost, inputs>>

\* lines 41-50 for bridge.api.scenes, then line 149 sends the light refresh
SceneRefreshReturn(i, b) ==
    /\ task[i][b].pc = "scenes_update"
    /\ \/ \E listing \in Listings(b) :
             /\ scenes' = [scenes EXCEPT ![b] = listing]
             /\ task' = [task EXCEPT ![i][b].pc = "lights_update",
                                     ![i][b].scenes_result = "True"]
       \/ /\ task' = [task EXCEPT ![i][b].pc = "lights_update",
                                  ![i][b].scenes_result = "False"]
          /\ UNCHANGED scenes
       \/ /\ task' = [task EXCEPT ![i][b] = Raise(@)]
          /\ UNCHANGED scenes
    /\ UNCHANGED <<state, lock, phase, calls, inv, added, persisted, publishes, escaped, lost, inputs>>

\* a light refresh whose failure does not end the update (lines 150-151 missing)
LightRefreshReturnNoAbort(i, b) ==
    /\ task[i][b].pc = "lights_update"
    /\ \/ task' = [task EXCEPT ![i][b] =
                      NextScene(b, [@ EXCEPT !.available = "True"], 0)]
       \/ task' = [task EXCEPT ![i][b] =
                      NextScene(b, [@ EXCEPT !.available = "False"], 0)]
       \/ task' = [task EXCEPT ![i][b] = Raise(@)]
    /\ UNCHANGED <<state, lock, phase, calls, inv, scenes, added, persisted, publishes, escaped, lost, inputs>>

\* lines 41-50 for bridge.api.lights, then lines 150-159
LightRefreshReturn(i, b) ==
    /\ task[i][b].pc = "lights_update"
    /\ \/ task' = [task EXCEPT ![i][b] =
                      NextScene(b, [@ EXCEPT !.available = "True"], 0)]
       \/ task' = [task EXCEPT ![i][b] =
                      Return([@ EXCEPT !.available = "False"], "unavailable")]
       \/ task' = [task EXCEPT ![i][b] = Raise(@)]
    /\ UNCHANGED <<state, lock, phase, calls, inv, scenes, added, persisted, publishes, escaped, lost, inputs>>

\* a scene PUT sent only for a scene judged active
GetReturnActiveOnly(i, b) ==
    /\ task[i][b].pc = "get"
    /\ LET t == task[i][b]
           lights == scenes[b][t.scene].lights
       IN  \/ task' = [task EXCEPT ![i][b] = Raise(t)]
           \/ \E check \in ChecksNow(lights) :
                 /\ check.error
                 /\ task' = [task EXCEPT ![i][b] = Raise(t)]
           \/ \E check \in ChecksNow(lights) :
                 /\ ~check.error
                 /\ ~check.is_current_scene
                 /\ task' = [task EXCEPT ![i][b] = NextScene(b, t, t.scene)]
           \/ \E check \in ChecksNow(lights), reading \in ReadingsNow :
                 /\ ~check.error
                 /\ check.is_current_scene
                 /\ task' = [task EXCEPT ![i][b] =
                       [t EXCEPT !.pc = "put",
                                 !.is_current_scene = check.is_current_scene,
                                 !.brightness_changed = check.brightness_changed,
                                 !.request = get_lightstate(lights, reading, TRUE),
                                 !.puts[t.scene] = @ + 1]]
    /\ UNCHANGED <<state, lock, phase, calls, inv, scenes, added, persisted, publishes, escaped, lost, inputs>>

\* lines 159-180: the scene detail arrives, the flags are computed and the scene
\* PUT with the light states of get_lightstate(lights) is sent
GetReturn(i, b) ==
    /\ task[i][b].pc = "get"
    /\ LET t == task[i][b]
           lights == scenes[b][t.scene].lights
       IN  \/ task' = [task EXCEPT ![i][b] = Raise(t)]
           \/ \E check \in ChecksNow(lights) :
                 /\ check.error
                 /\ task' = [task EXCEPT ![i][b] = Raise(t)]
           \/ \E check \in ChecksNow(lights), reading \in ReadingsNow :
                 /\ ~check.error
                 /\ task' = [task EXCEPT ![i][b] =
                       [t EXCEPT !.pc = "put",
                                 !.is_current_scene = check.is_current_scene,
                                 !.brightness_changed = check.brightness_changed,
                                 !.request = get_lightstate(lights, reading, TRUE),
                                 !.puts[t.scene] = @ + 1]]
    /\ UNCHANGED <<state, lock, phase, calls, inv, scenes, added, persisted, publishes, escaped, lost, inputs>>

\* direct patches that carry the brightness whatever brightness_changed is
PutReturnWithBrightness(i, b) ==
    /\ task[i][b].pc = "put"
    /\ LET t == task[i][b]
           lights == scenes[b][t.scene].lights
       IN  \/ task' = [task EXCEPT ![i][b] = Raise(t)]
           \/ /\ ~t.is_current_scene
              /\ task' = [task EXCEPT ![i][b] = NextScene(b, t, t.scene)]
           \/ /\ t.is_current_scene
              /\ \E reading \in ReadingsNow :
                    task' = [task EXCEPT ![i][b] =
                       [t EXCEPT !.pc = "set_state",
                                 !.request = get_lightstate(lights, reading, TRUE)]]
    /\ UNCHANGED <<state, lock, phase, calls, inv, scenes, added, persisted, publishes, escaped, lost, inputs>>

\* lines 180-188: the PUT returns; an active scene's lights are set directly
PutReturn(i, b) ==
    /\ task[i][b].pc = "put"
    /\ LET t == task[i][b]
           lights == scenes[b][t.scene].lights
       IN  \/ task' = [task EXCEPT ![i][b] = Raise(t)]
           \/ /\ ~t.is_current_scene
              /\ task' = [task EXCEPT ![i][b] = NextScene(b, t, t.scene)]
           \/ /\ t.is_current_scene
              /\ \E reading \in ReadingsNow :
                    task' = [task EXCEPT ![i][b] =
                       [t EXCEPT !.pc = "set_state",
                                 !.request =
                                     get_lightstate(lights, reading, ~t.brightness_changed)]]
    /\ UNCHANGED <<state, lock, phase, calls, inv, scenes, added, persisted, publishes, escaped, lost, inputs>>

\* line 188: asyncio.gather over the set_state calls returns or raises
SetStateReturn(i, b) ==
    /\ task[i][b].pc = "set_state"
    /\ \/ task' = [task EXCEPT ![i][b] = NextScene(b, @, @.scene)]
       \/ task' = [task EXCEPT ![i][b] = Raise(@)]
    /\ UNCHANGED <<state, lock, phase, calls, inv, scenes, added, persisted, publishes, escaped, lost, inputs>>

update_bridge(i, b) ==
    \/ UpdateBridgeStart(i, b)
    \/ SceneRefreshReturn(i, b)
    \/ LightRefreshReturn(i, b)
    \/ GetReturn(i, b)
    \/ PutReturn(i, b)
    \/ SetStateReturn(i, b)

---------------------------------------------------------------------------
Next ==
    \/ turn_on
    \/ turn_off
    \/ PublishState
    \/ AddedCall
    \/ AddedCheck
    \/ AddedRestore
    \/ Tick
    \/ async_update_info
    \/ \E i \in Invocations : SleepReturn(i)
    \/ \E i \in Invocations : WaitReturn(i)
    \/ \E i \in Invocations, b \in Bridges : update_bridge(i, b)

Spec == Init /\ [][Next]_vars

\* a step of the cycle in progress: a bridge call or the pause returns, a task
\* runs on, or asyncio.wait returns
CycleStep ==
    \/ \E i \in Invocations : SleepReturn(i)
    \/ \E i \in Invocations : WaitReturn(i)
    \/ \E i \in Invocations, b \in Bridges : update_bridge(i, b)

\* the event loop runs what is ready, and every bridge call and the pause of
\* line 105 return in the end
FairSpec == Spec /\ WF_vars(CycleStep)

---------------------------------------------------------------------------
(* The loop body of update_bridge (lines 159-188) on known bridge answers *)

\* live values around the tolerances: the stored brightness is 200 (5 and 6
\* away), the stored x is 450 (19 and 21 away on either coordinate)
NearLiveBri == {150, 194, 195, 200}
NearLiveXYs ==
    {<<450, 410>>, <<455, 445>>, <<431, 469>>, <<429, 450>>, <<450, 471>>, <<320, 330>>}

\* bridge.api.lights[l].state after a refresh, with values near the tolerances
NearLiveStates(l) ==
    IF HasXY(l)
    THEN {LightStateXY(on, bri, xy) : on \in BOOLEAN, bri \in NearLiveBri, xy \in NearLiveXYs}
    ELSE {LightStateNoXY(on, bri) : on \in BOOLEAN, bri \in NearLiveBri}

NearLiveCaches ==
    {[l \in Lights |-> IF l = "l1" THEN a ELSE b] :
        a \in NearLiveStates("l1"), b \in NearLiveStates("l2")}

\* float(state) of sensor.circadian_values (line 115), at the integers of its range
Percents == (-100)..100

\* sensor.circadian_values over the whole range of the percentage
PercentReadings == {[percent |-> p, xy_color |-> <<450, 410>>] : p \in Percents}

\* a live cache that makes every scene active: without and with a brightness
\* change of a light
ActiveCaches ==
    {[l \in Lights |-> IF l = "l1" THEN LightStateXY(TRUE, bri, <<455, 445>>)
                                    ELSE LightStateNoXY(TRUE, bri)] : bri \in {200, 150}}

\* the scene detail the live caches of ActiveCaches are compared with
ActiveDetail ==
    [l \in Lights |-> IF l = "l1" THEN LightStateXY(TRUE, 200, <<450, 410>>)
                                   ELSE LightStateNoXY(TRUE, 200)]

\* the bridge answers and the sensor reading of one run
FixedInputs ==
    {[fixed |-> TRUE, live |-> live, detail |-> detail, reading |-> reading] :
        live \in NearLiveCaches, detail \in SceneDetails, reading \in Readings}
    \cup
    {[fixed |-> TRUE, live |-> live, detail |-> ActiveDetail, reading |-> reading] :
        live \in ActiveCaches, reading \in PercentReadings}

\* update_bridge of one bridge after its light refresh (line 149) has succeeded:
\* the state is ON, the cycle holds the lock and the detail GET of the first
\* Circadian scene is in flight (line 159)
SceneInit ==
    /\ state = "ON"
    /\ lock = TRUE
    /\ phase = "running"
    /\ calls = 0
    /\ inv = [i \in Invocations |->
                 IF i = 1 THEN [pc |-> "wait", now |-> TRUE] ELSE IdleInvocation]
    /\ scenes = [b \in Bridges |-> IF b = "b1" THEN ListingA ELSE ListingB]
    /\ \E b \in Bridges :
          task = [i \in Invocations |-> [c \in Bridges |->
                     IF i = 1 /\ c = b
                     THEN NextScene(c, [ReadyTask EXCEPT !.available = "True"], 0)
                     ELSE NoTask]]
    /\ added = [pc |-> "idle", done |-> TRUE]
    /\ persisted = "on"
    /\ publishes = 0
    /\ escaped = FALSE
    /\ lost = FALSE
    /\ inputs \in FixedInputs

\* lines 159-188 for every Circadian scene, then the end of the cycle
SceneNext ==
    \/ \E i \in Invocations, b \in Bridges : GetReturn(i, b)
    \/ \E i \in Invocations, b \in Bridges : PutReturn(i, b)
    \/ \E i \in Invocations, b \in Bridges : SetStateReturn(i, b)
    \/ \E i \in Invocations : WaitReturn(i)

SpecScene == SceneInit /\ [][SceneNext]_vars

---------------------------------------------------------------------------
(* Properties *)

\* a task at one of these positions has a bridge call in flight
CallPcs == {"scenes_update", "lights_update", "get", "put", "set_state"}

\* the step sends a bridge call of task (i, b)
IssuesCall(i, b) ==
    /\ task'[i][b] # task[i][b]
    /\ task'[i][b].pc \in CallPcs

\* bool(self.is_on), lines 81-84
is_on == state = "ON"

\* the Circadian scenes of a listing
CircadianScenes(listing) == {s \in DOMAIN listing : listing[s].name = CircadianName}

\* C1: no bridge call of any kind is sent while the entity's state is not ON,
\* for every interleaving of turn_on, turn_off, restore and poll cycles.
C1_NoCallWhileNotOn ==
    [][\A i \in Invocations, b \in Bridges : IssuesCall(i, b) => state = "ON"]_vars

\* C2: at most one poll cycle of the entity is in progress at any time.
C2_AtMostOneCycle ==
    Cardinality({i \in Invocations : InCycle(i)}) <= 1

\* C2 witness: a call of async_update_info is scheduled while a cycle is in
\* progress with a bridge call in flight
C2_Witness ==
    \E i \in Invocations :
        /\ calls > 0
        /\ inv[i].pc = "wait"
        /\ \E b \in Bridges : task[i][b].pc \in CallPcs

\* C3: a call of async_update_info that finds the lock held returns at once: it
\* sends no bridge call, does not pause, leaves nothing pending and leaves the
\* lock and the running cycle as they are.
C3_DroppedCallIsNoop ==
    [][(calls' < calls /\ lock) =>
          /\ calls' = calls - 1
          /\ lock'
          /\ UNCHANGED <<state, phase, inv, task, scenes, added, persisted,
                         publishes, escaped>>]_vars

\* C3 witness: a call has found the lock held and returned while the cycle that
\* holds the lock has a scene PUT in flight
C3_Witness ==
    \E i \in Invocations :
        /\ lost
        /\ lock
        /\ inv[i].pc = "wait"
        /\ \E b \in Bridges : task[i][b].pc = "put"

\* C4: an update_bridge that starts while the state is not ON (OFF or UNSET)
\* returns at line 147 and sends no bridge call for that bridge.
C4_GateClosedNoCall ==
    [][\A i \in Invocations, b \in Bridges :
          /\ (task[i][b].pc = "ready" /\ state # "ON" /\ task'[i][b] # task[i][b]) =>
                 /\ task'[i][b].pc = "done"
                 /\ task'[i][b].exit = "off"
                 /\ task'[i][b].request = <<>>
          /\ task[i][b].exit = "off" => ~IssuesCall(i, b)]_vars

\* C4 witness: with the entity toggled off, an update_bridge has returned at the gate
\* while the task of the other bridge, started when the state was ON, goes on
C4_Witness ==
    \E i \in Invocations, b, c \in Bridges :
        /\ state = "OFF"
        /\ task[i][b].exit = "off"
        /\ task[i][c].pc \in CallPcs

\* C5: within one poll cycle a bridge update that raises leaves the other bridges'
\* updates running, the cycle waits for all of them, and no exception leaves
\* async_update_info.
C5_FailureIsContained ==
    [][/\ ~escaped'
       /\ \A i \in Invocations :
             /\ (inv[i].pc = "wait" /\ inv'[i].pc # "wait") =>
                    \A b \in Bridges : Finished(task[i][b])
             /\ \A b \in Bridges :
                    (task[i][b].pc # "raised" /\ task'[i][b].pc = "raised") =>
                        /\ \A c \in Bridges \ {b} : task'[i][c] = task[i][c]
                        /\ inv' = inv
                        /\ lock' = lock]_vars

\* C5 witness: one bridge's update has raised and the other bridge's update is
\* still at work in the same cycle
C5_Witness ==
    \E i \in Invocations, b, c \in Bridges :
        /\ inv[i].pc = "wait"
        /\ task[i][b].pc = "raised"
        /\ task[i][c].pc = "set_state"

\* C6: a failed light refresh ends the bridge's update without scene GET, scene
\* PUT or set_state; a failed scene refresh followed by a successful light
\* refresh goes on with the scenes of the cache.
C6_LightRefreshMandatory ==
    [][\A i \in Invocations, b \in Bridges :
          /\ (/\ task[i][b].pc = "lights_update"
              /\ task'[i][b] # task[i][b]
              /\ task'[i][b].available # "True") =>
                 /\ task'[i][b].pc \in {"done", "raised"}
                 /\ task'[i][b].puts = [s \in SceneIds |-> 0]
          /\ task[i][b].exit \in {"unavailable", "error"} => ~IssuesCall(i, b)
          /\ (/\ task[i][b].pc = "lights_update"
              /\ task[i][b].scenes_result = "False"
              /\ task'[i][b].available = "True") =>
                 /\ scenes' = scenes
                 /\ IF CircadianScenes(scenes[b]) = {}
                    THEN task'[i][b].exit = "end"
                    ELSE /\ task'[i][b].pc = "get"
                         /\ task'[i][b].scene = NextCircadian(scenes[b], 0)]_vars

\* C6 witness: one update has ended on a failed light refresh, another awaits its
\* light refresh after a failed scene refresh
C6_Witness ==
    \E i \in Invocations, b, c \in Bridges :
        /\ task[i][b].exit = "unavailable"
        /\ task[i][c].pc = "lights_update"
        /\ task[i][c].scenes_result = "False"
        /\ CircadianScenes(scenes[c]) # {}

\* C7: turn_on leaves is_on true and requests no publish; turn_off leaves is_on
\* false and requests exactly one publish; neither sends a bridge call nor
\* touches the lock.
C7_ToggleEffects ==
    [][/\ turn_on =>
             /\ is_on'
             /\ publishes' = publishes
             /\ UNCHANGED <<lock, inv, task, scenes>>
       /\ turn_off =>
             /\ ~is_on'
             /\ state' = "OFF"
             /\ publishes' = publishes + 1
             /\ UNCHANGED <<lock, inv, task, scenes>>]_vars

\* C7 witness: the entity was turned off during a poll cycle: the publish is
\* requested and the cycle's call is still in flight
C7_Witness ==
    /\ state = "OFF"
    /\ publishes = 1
    /\ lock
    /\ \E i \in Invocations, b \in Bridges : task[i][b].pc \in CallPcs

\* C8: async_added_to_hass on an UNSET entity leaves the state ON iff the
\* persisted state exists and is "on", and OFF in every other case.
C8_RestoreSetsOnOrOff ==
    [][(added.pc = "last_state" /\ added'.pc = "idle") =>
          state' = (IF persisted = "on" THEN "ON" ELSE "OFF")]_vars

\* C9: once a first async_added_to_hass has ended, a later call does not ask for
\* the last persisted state and leaves the state as it is.
C9_RestoreOnce ==
    [][added.done =>
          /\ (added.pc = "super" => added'.pc # "last_state")
          /\ (added' # added => state' = state)]_vars

\* C10 as stated: when an update_bridge that had a successful light refresh has
\* ended, every Circadian scene of the cache has received exactly one scene PUT
\* and no other scene has received one.
C10_EveryCircadianScenePut ==
    \A i \in Invocations, b \in Bridges :
        (task[i][b].available = "True" /\ task[i][b].pc \in {"done", "raised"}) =>
            \A s \in DOMAIN scenes[b] :
                task[i][b].puts[s] = (IF scenes[b][s].name = CircadianName THEN 1 ELSE 0)

\* the facts of C10 that hold in every state
PutDiscipline(i, b) ==
    LET t == task[i][b] IN
    /\ \A s \in SceneIds :
          /\ t.puts[s] <= 1
          /\ t.puts[s] = 1 => (s \in CircadianScenes(scenes[b]) /\ t.available = "True")
    /\ t.pc \in {"get", "put", "set_state"} =>
          /\ t.scene \in CircadianScenes(scenes[b])
          /\ t.available = "True"
    /\ t.exit = "end" => \A s \in CircadianScenes(scenes[b]) : t.puts[s] = 1

\* C10 (amended): after a successful light refresh every Circadian scene whose
\* detail GET returns and whose comparison completes receives exactly one scene
\* PUT with the light states get_lightstate computes (brightness included),
\* whatever the flags is_current_scene and brightness_changed; an update that
\* reaches the end of the loop has sent one PUT for every Circadian scene; a
\* scene of another name receives no GET, PUT or set_state.
C10_PutPerProcessedScene ==
    [][\A i \in Invocations, b \in Bridges :
          /\ (task'[i][b] # task[i][b] \/ scenes'[b] # scenes[b]) => PutDiscipline(i, b)'
          /\ (task[i][b].pc = "get" /\ task'[i][b].pc \notin {"get", "raised"}) =>
                 /\ task'[i][b].pc = "put"
                 /\ task'[i][b].scene = task[i][b].scene
                 /\ task[i][b].puts[task[i][b].scene] = 0
                 /\ task'[i][b].puts[task[i][b].scene] = 1
                 /\ task'[i][b].request \in
                        {get_lightstate(scenes[b][task[i][b].scene].lights, r, TRUE) :
                            r \in Readings}]_vars

\* C10 witness: the second Circadian scene of a bridge has its scene PUT in
\* flight although it was judged not active and a brightness change was seen
C10_Witness ==
    \E i \in Invocations, b \in Bridges :
        /\ task[i][b].pc = "put"
        /\ task[i][b].puts[1] = 1
        /\ task[i][b].puts[3] = 1
        /\ ~task[i][b].is_current_scene
        /\ task[i][b].brightness_changed

\* the lights of the scene task (i, b) is at
SceneLights(i, b) == scenes[b][task[i][b].scene].lights

\* the condition of C11 for one light: the on flags are equal and, when the
\* live state reports xy, both live coordinates are within the tolerance of
\* the stored x coordinate
WithinOfStoredX(current_state, stored) ==
    /\ current_state["on"] = stored["on"]
    /\ "xy" \in DOMAIN current_state =>
          /\ "xy" \in DOMAIN stored
          /\ Abs(current_state["xy"][1] - stored["xy"][1]) <= XyTolerance
          /\ Abs(current_state["xy"][2] - stored["xy"][1]) <= XyTolerance

\* the condition of C11 for the scene task (i, b) is at
AllWithin(i, b) ==
    \A l \in SceneLights(i, b) : WithinOfStoredX(inputs.live[l], inputs.detail[l])

\* a light of the scene has a live brightness more than 5 from the stored one
SomeBriChanged(i, b) ==
    \E l \in SceneLights(i, b) :
        Abs(inputs.live[l]["bri"] - inputs.detail[l]["bri"]) > BriTolerance

\* the step sends the set_state calls for the scene task (i, b) is at
SendsSetState(i, b) ==
    /\ task'[i][b].pc = "set_state"
    /\ task'[i][b].scene = task[i][b].scene

\* C11 as stated: for every live cache and every stored light states of a
\* Circadian scene, the scene is judged active and the set_state calls are sent
\* if and only if every light has the stored on flag and, when it reports xy,
\* both live coordinates within 0.02 of the stored x coordinate.
C11_ActiveAndSetIffWithin ==
    [][\A i \in Invocations, b \in Bridges :
          /\ (task[i][b].pc = "get" /\ task'[i][b].pc = "put") =>
                 (task'[i][b].is_current_scene <=> AllWithin(i, b))
          /\ (task[i][b].pc = "put" /\ task'[i][b] # task[i][b]) =>
                 (AllWithin(i, b) <=> SendsSetState(i, b))]_vars

\* C11 (amended): when the detail GET of a Circadian scene returns and every
\* stored state of a light that reports xy has an xy (else the comparison raises
\* and ends the update), the scene is judged active if and only if every light
\* has the stored on flag and, when it reports xy, both live coordinates within
\* 0.02 of the stored x coordinate; brightness_changed is set if and only if a
\* light's brightness is more than 5 from the stored one and has no part in the
\* judgement; the set_state calls are sent if and only if the scene was judged
\* active and its scene PUT returned without error.
C11_ActiveIffWithin ==
    [][\A i \in Invocations, b \in Bridges :
          /\ (task[i][b].pc = "get" /\ task'[i][b].pc = "put") =>
                 /\ task'[i][b].is_current_scene <=> AllWithin(i, b)
                 /\ task'[i][b].brightness_changed <=> SomeBriChanged(i, b)
          /\ (task[i][b].pc = "get"
                /\ \E l \in SceneLights(i, b) :
                       XyMissing(inputs.live[l], inputs.detail[l])) =>
                 task'[i][b].pc \in {"get", "raised"}
          /\ (task[i][b].pc = "put" /\ task'[i][b] # task[i][b]) =>
                 /\ SendsSetState(i, b) => AllWithin(i, b)
                 /\ (AllWithin(i, b) /\ task'[i][b].pc # "raised") => SendsSetState(i, b)]_vars

\* C11 witness: the set_state calls of a scene are in flight although a light's
\* brightness is more than 5 from the stored one and its live y coordinate is
\* more than 0.02 from the stored y coordinate
C11_Witness ==
    \E i \in Invocations, b \in Bridges :
        /\ task[i][b].pc = "set_state"
        /\ task[i][b].brightness_changed
        /\ SomeBriChanged(i, b)
        /\ \E l \in SceneLights(i, b) :
              /\ "xy" \in DOMAIN inputs.live[l]
              /\ Abs(inputs.live[l]["xy"][2] - inputs.detail[l]["xy"][2]) > XyTolerance

\* every patch of the request of task (i, b) has a brightness / none has one
AllWithBri(request) == \A l \in DOMAIN request : "bri" \in DOMAIN request[l]
NoneWithBri(request) == \A l \in DOMAIN request : "bri" \notin DOMAIN request[l]

\* the payloads C12 describes, for the step that follows the scene PUT of an
\* active scene: the PUT carried a brightness for every member light, the
\* set_state calls go to every member light, without brightness when a light's
\* brightness was changed and with brightness otherwise
DirectPatches(i, b) ==
    /\ DOMAIN task[i][b].request = SceneLights(i, b)
    /\ AllWithBri(task[i][b].request)
    /\ SendsSetState(i, b)
    /\ DOMAIN task'[i][b].request = SceneLights(i, b)
    /\ SomeBriChanged(i, b) => NoneWithBri(task'[i][b].request)
    /\ ~SomeBriChanged(i, b) => AllWithBri(task'[i][b].request)

\* C12 as stated: when a Circadian scene is judged active, a set_state call is
\* sent to every member light, without brightness if a light's live brightness
\* is more than 5 from the stored one and with brightness otherwise, while the
\* scene PUT of the cycle carries a brightness for every member light.
C12_PatchesOfActiveScene ==
    [][\A i \in Invocations, b \in Bridges :
          (task[i][b].pc = "put" /\ task[i][b].is_current_scene
              /\ task'[i][b] # task[i][b]) => DirectPatches(i, b)]_vars

\* C12 (amended): when a Circadian scene is judged active and its scene PUT
\* returns without error, a set_state call is sent to every member light,
\* without brightness if a light's live brightness is more than 5 from the
\* stored one and with brightness otherwise, while the scene PUT of the cycle
\* carried a brightness for every member light; when the PUT raises, no
\* set_state call is sent.
C12_PatchesAfterPut ==
    [][\A i \in Invocations, b \in Bridges :
          (task[i][b].pc = "put" /\ task[i][b].is_current_scene
              /\ task'[i][b] # task[i][b]) =>
                 \/ DirectPatches(i, b)
                 \/ task'[i][b].pc = "raised"]_vars

\* C12 witness: the set_state calls of a scene over two lights are in flight
\* without a brightness, after the scene PUT, one light's brightness being
\* more than 5 from the stored one
C12_Witness ==
    \E i \in Invocations, b \in Bridges :
        /\ task[i][b].pc = "set_state"
        /\ task[i][b].puts[task[i][b].scene] = 1
        /\ SomeBriChanged(i, b)
        /\ DOMAIN task[i][b].request = {"l1", "l2"}
        /\ NoneWithBri(task[i][b].request)

\* k is the integer part of 255 * (100 + p) / 100
IsIntegerPart(k, p) ==
    /\ 100 * k <= FullBrightness * (100 + p)
    /\ FullBrightness * (100 + p) < 100 * (k + 1)

\* C13: for every integer percentage p in [-100, 100] the brightness
\* get_lightstate puts into a patch is 255 when p > 0 and the integer part of
\* 255 * (100 + p) / 100 when p <= 0; it is not below the brightness of any
\* smaller percentage, and it lies within 0..255.
C13_Brightness ==
    \A i \in Invocations, b \in Bridges :
        task[i][b].pc = "put" =>
            \A l \in DOMAIN task[i][b].request :
                LET p   == inputs.reading.percent
                    bri == task[i][b].request[l]["bri"]
                IN  /\ p \in Percents
                    /\ p > 0 => bri = FullBrightness
                    /\ p <= 0 => IsIntegerPart(bri, p)
                    /\ \A q \in Percents : q <= p => Brightness(q) <= bri
                    /\ bri \in 0..FullBrightness

\* C13 witness: a scene PUT is in flight whose brightness 252 is the integer
\* part of 252.45, for the percentage -1
C13_Witness ==
    \E i \in Invocations, b \in Bridges :
        /\ task[i][b].pc = "put"
        /\ inputs.reading.percent = -1
        /\ \A l \in DOMAIN task[i][b].request :
              task[i][b].request[l]["bri"] = FullBrightness - 3

\* C14: every patch get_lightstate computes has on = true and transitiontime = 20,
\* has the xy of the reading if and only if the light's current state reports
\* xy, and has a brightness if and only if the brightness flag is true (it is
\* true for the scene PUT and `not brightness_changed` for the set_state
\* calls); the output has exactly one patch per input light.
C14_PatchShape ==
    \A i \in Invocations, b \in Bridges :
        task[i][b].pc \in {"put", "set_state"} =>
            LET request == task[i][b].request
                set_brightness == task[i][b].pc = "put" \/ ~task[i][b].brightness_changed
            IN  /\ DOMAIN request = SceneLights(i, b)
                /\ \A l \in DOMAIN request :
                      /\ request[l]["on"] = TRUE
                      /\ request[l]["transitiontime"] = TransitionTime
                      /\ "xy" \in DOMAIN request[l] <=> "xy" \in DOMAIN inputs.live[l]
                      /\ "xy" \in DOMAIN request[l] =>
                             request[l]["xy"] = inputs.reading.xy_color
                      /\ "bri" \in DOMAIN request[l] <=> set_brightness
                      /\ DOMAIN request[l] \subseteq {"on", "transitiontime", "xy", "bri"}

\* C14 witness: set_state calls are in flight for a light that reports xy and a
\* light that does not, the brightness flag being false: the patches are
\* {on, xy, transitiontime} and {on, transitiontime}
C14_Witness ==
    \E i \in Invocations, b \in Bridges :
        /\ task[i][b].pc = "set_state"
        /\ task[i][b].brightness_changed
        /\ DOMAIN task[i][b].request = {"l1", "l2"}
        /\ DOMAIN task[i][b].request["l1"] = {"on", "xy", "transitiontime"}
        /\ DOMAIN task[i][b].request["l2"] = {"on", "transitiontime"}

\* C15: a scene a bridge call is made for (detail GET, scene PUT, set_state) is
\* a Managed Scene: it is named "Circadian" and its member lights are exactly
\* the lights of a target light group; a scene named "Circadian" whose lights
\* match no group is never acted upon.
C15_OnlyManagedScenes ==
    \A i \in Invocations, b \in Bridges :
        task[i][b].pc \in {"get", "put", "set_state"} =>
            \E group \in Groups : is_circadian_scene(group, scenes[b][task[i][b].scene])

\* C16: within one run of update_bridge the scene refresh has returned when the
\* light refresh is sent, the light refresh has returned (with success) when
\* the first request for a scene is sent, and for every Circadian scene the
\* detail GET has returned when the scene PUT is sent and the scene PUT has
\* returned when its set_state calls are sent; the scenes are taken one after
\* the other.
C16_CallOrder ==
    [][\A i \in Invocations, b \in Bridges :
          LET t == task[i][b]
              u == task'[i][b]
          IN  u # t =>
                /\ u.pc = "scenes_update" => t.pc = "ready"
                /\ u.pc = "lights_update" =>
                       (t.pc = "scenes_update" /\ u.scenes_result # "unset")
                /\ u.pc = "get" =>
                       /\ t.pc \in {"lights_update", "put", "set_state"}
                       /\ u.available = "True"
                       /\ u.scene > t.scene
                       /\ u.puts[u.scene] = 0
                /\ u.pc = "put" =>
                       (t.pc = "get" /\ u.scene = t.scene /\ u.puts[u.scene] = 1)
                /\ u.pc = "set_state" =>
                       (t.pc = "put" /\ u.scene = t.scene /\ u.puts[u.scene] = 1)]_vars

\* C16 witness: the set_state calls of the second Circadian scene of a bridge are
\* in flight after the scene PUTs of both scenes
C16_Witness ==
    \E i \in Invocations, b \in Bridges :
        /\ task[i][b].pc = "set_state"
        /\ task[i][b].scene = 3
        /\ task[i][b].puts[1] = 1
        /\ task[i][b].puts[3] = 1
        /\ task[i][b].available = "True"

\* the lock is held exactly while a cycle is in progress
HeldInCycle == lock <=> \E i \in Invocations : InCycle(i)

\* C17: a cycle that took the lock keeps it until every update_bridge task has
\* ended (returned or raised) or the pause is over, and releases it exactly
\* once on each of its exit paths: the lock is held exactly while a cycle is in
\* progress, it is released only by the step that ends the cycle, and every
\* step that ends a cycle releases it; when every bridge call returns, the
\* lock is free again in the end.
C17_GuardHeldThenReleased ==
    /\ [][/\ HeldInCycle'
          /\ (lock /\ ~lock') =>
                \E i \in Invocations :
                    /\ InCycle(i)
                    /\ ~InCycle(i)'
                    /\ inv[i].pc = "wait" => \A b \in Bridges : Finished(task[i][b])
          /\ \A i \in Invocations : (InCycle(i) /\ ~InCycle(i)') => (lock /\ ~lock')]_vars
    /\ []<>~lock

\* C17 witness: a cycle holds the lock while one of its tasks has raised and
\* another still has a bridge call in flight
C17_Witness ==
    \E i \in Invocations, b, c \in Bridges :
        /\ lock
        /\ inv[i].pc = "wait"
        /\ task[i][b].pc = "raised"
        /\ task[i][c].pc \in CallPcs

\* the step starts a cycle that finds no bridge: a call takes the free lock and
\* creates no task
StartsWithoutBridge ==
    /\ calls' = calls - 1
    /\ ~lock
    /\ task' = task

\* C18: a cycle that finds no bridge sends no bridge call; a scheduled call
\* then pauses with the lock held, a call that starts during the pause is
\* dropped, and the end of the pause releases the lock; the initial call of
\* async_setup_platform releases the lock at once, without a pause.
C18_NoBridge ==
    [][/\ (StartsWithoutBridge /\ phase = "running") =>
             /\ lock'
             /\ \E i \in Invocations :
                   /\ inv[i].pc = "idle"
                   /\ inv' = [inv EXCEPT ![i] = [pc |-> "sleep", now |-> TRUE]]
       /\ (StartsWithoutBridge /\ phase = "setup") =>
             /\ ~lock'
             /\ inv' = inv
             /\ phase' = "running"
       /\ \A i \in Invocations :
             /\ inv'[i].pc = "sleep" =>
                   /\ lock'
                   /\ inv'[i].now
                   /\ \A b \in Bridges : task'[i][b].pc = "none"
             /\ (inv[i].pc = "sleep" /\ calls' < calls) =>
                   (lock' /\ inv' = inv /\ task' = task /\ lost')
             /\ (inv[i].pc = "sleep" /\ inv'[i].pc # "sleep") =>
                   (inv'[i].pc = "idle" /\ ~lock' /\ task' = task)]_vars

\* C18 witness: a scheduled call pauses with the lock held, no bridge call is
\* in flight, and a call that started during the pause has been dropped
C18_Witness ==
    \E i \in Invocations :
        /\ inv[i].pc = "sleep"
        /\ lock
        /\ lost
        /\ \A j \in Invocations, b \in Bridges : task[j][b].pc \notin CallPcs

\* the facts of C19 that hold in every state: until the initial call of
\* async_setup_platform has returned the state is unset and no bridge call is
\* in flight, and a bridge call belongs to a scheduled call
InitialPollSilent ==
    /\ phase = "setup" =>
          /\ state = "UNSET"
          /\ \A i \in Invocations, b \in Bridges : task[i][b].pc \notin CallPcs
    /\ \A i \in Invocations, b \in Bridges :
          task[i][b].pc \in CallPcs => (inv[i].now /\ phase = "running")

\* C19 as stated: the initial poll cycle finds the state unset and sends no
\* bridge call; the first bridge call of an update_bridge comes from a
\* scheduled call of async_update_info that started after the state became ON.
C19_FirstCallAfterOn ==
    [][/\ InitialPollSilent'
       /\ \A i \in Invocations, b \in Bridges :
             (task[i][b].pc = "ready" /\ task'[i][b].pc \in CallPcs) =>
                 task[i][b].state_at_start = "ON"]_vars

\* C19 (amended): the initial poll cycle finds the state unset and sends no
\* bridge call; the first bridge call of an update_bridge comes from a
\* scheduled call of async_update_info, and the state is ON when update_bridge
\* reads it at line 145; the scheduled call itself may have started, and
\* created the task, while the state was still unset or OFF.
C19_FirstCallWhenOn ==
    [][/\ InitialPollSilent'
       /\ \A i \in Invocations, b \in Bridges :
             (task[i][b].pc = "ready" /\ task'[i][b].pc \in CallPcs) =>
                 (state = "ON" /\ inv[i].now /\ task'[i][b].pc = "scenes_update")]_vars

\* C19 witness: after the initial cycle has returned, a scheduled cycle has
\* created a task while the state was unset, and the state is ON before the
\* task runs
C19_Witness ==
    \E i \in Invocations, b \in Bridges :
        /\ task[i][b].pc = "ready"
        /\ task[i][b].state_at_start = "UNSET"
        /\ inv[i].now
        /\ phase = "running"
        /\ state = "ON"

\* C20: a state that turn_on or turn_off has set is not overwritten by the
\* restore step of async_added_to_hass, and a state that is ON or OFF never
\* becomes unset again, whatever the interleaving, a toggle during the wait
\* for the last persisted state (line 141) included.
C20_ExplicitStateKept ==
    [][/\ state # "UNSET" => state' # "UNSET"
       /\ (state # "UNSET" /\ added' # added) => state' = state]_vars

===========================================================================
